---- MODULE Spec2Model ----
(***************************************************************************)
(* A model of src/main.py: the Rolimons bulk-feed cache                    *)
(* (fetch_rolimons_raw), the operations that read it (run_scan,            *)
(* run_growth_scan, fetch_new_releases, fetch_forsale_limiteds and the     *)
(* item lookups) and the scoring functions they use.                       *)
(*                                                                         *)
(* Numbers.  Python floats are modelled as exact rationals [n, d] in       *)
(* lowest terms with d > 0; RAP and value are integral.  Rounding of       *)
(* IEEE doubles is not modelled.                                           *)
(*                                                                         *)
(* Scheduling.  asyncio is cooperative: a coroutine runs without           *)
(* interruption between two network awaits.  Every action below is one     *)
(* such uninterrupted stretch of a task.                                   *)
(***************************************************************************)
EXTENDS Integers, Sequences, FiniteSets, TLC

VARIABLES
    now,        \* the wall clock, in seconds (datetime.now(...).timestamp())
    upstream,   \* what the bulk-feed endpoint answers at this moment
    cache,      \* _rolimons_cache: None, or [ts, snap]
    tasks,      \* the coroutines: for each task its operation and position
    call,       \* observer: the latest call of fetch_rolimons_raw
    done,       \* observer: the outcome of the operation that finished last
    pinned,     \* observer: one earlier run_scan on the snapshot now cached
    client      \* the Discord client: "connecting", "open" or "closed"

vars == <<now, upstream, cache, tasks, call, done, pinned, client>>

None == [none |-> TRUE]

(***************************************************************************)
(* Program constants.                                                      *)
(***************************************************************************)
ROLIMONS_CACHE_TTL == 300
ResultCap == 25
AUTO_MAX_PRICE == 200
AUTO_TOP_N == 10
AUTO_MIN_RAP == 0
AUTO_MIN_GAP == 0
NEW_ITEM_COUNT == 20
GrowthTopN == 10
InfoLen == 10

MaxTier == 5

SCAN_INTERVAL == 3600

(***************************************************************************)
(* Bounds of the model.                                                    *)
(***************************************************************************)
MaxTime == 450
BigLen == 27

MaxPrice == 10

MaxRounds == 2

MaxElapse == 600

TickSteps == {150}

(***************************************************************************)
(* Arithmetic.                                                             *)
(***************************************************************************)
Abs(x) == IF x < 0 THEN -x ELSE x

Min(a, b) == IF a <= b THEN a ELSE b

Max(a, b) == IF a >= b THEN a ELSE b

RECURSIVE Gcd(_, _)
Gcd(a, b) == IF b = 0 THEN a ELSE Gcd(b, a % b)

Rat(n, d) ==
    LET g == Gcd(Abs(n), d)
    IN  [n |-> n \div g, d |-> d \div g]

IntRat(k) == [n |-> k, d |-> 1]

RatAddInt(a, k) == [n |-> a.n + k * a.d, d |-> a.d]

RatLt(a, b) == a.n * b.d < b.n * a.d

RatLe(a, b) == a.n * b.d <= b.n * a.d

(***************************************************************************)
(* Python's dict and list primitives.                                      *)
(***************************************************************************)
\* [f(x) for x in ...] as a list: the function as a tuple of its values
List(f) == SubSeq(f, 1, Len(f))

\* item.get(k, dflt)
Get(item, k, dflt) == IF k \in DOMAIN item THEN item[k] ELSE dflt

\* item[k] = v
SetField(item, k, v) == (k :> v) @@ item

\* seq[:k], for every integer k
PySliceTo(seq, k) ==
    IF k >= 0
    THEN SubSeq(seq, 1, Min(k, Len(seq)))
    ELSE SubSeq(seq, 1, Max(0, Len(seq) + k))

\* the position of key aid in an insertion-ordered dict of records, 0 if absent
IndexOfId(snap, aid) ==
    IF \E i \in 1..Len(snap) : snap[i].id = aid
    THEN CHOOSE i \in 1..Len(snap) : snap[i].id = aid
    ELSE 0

\* the sort key x[k] as a rational (ids are integers, the scores floats)
KeyOf(rec, k) == IF k = "id" THEN IntRat(rec.id) ELSE rec[k]

\* list.sort(key=lambda x: x[k], reverse=True): descending and stable, so
\* that records with equal keys keep the order they had in the list.
\* SortSeq is a stable sort: a goes before b only where a's key is greater.
SortDesc(seq, k) ==
    SortSeq(seq, LAMBDA a, b : RatLt(KeyOf(b, k), KeyOf(a, k)))

Ids(seq) == List([i \in 1..Len(seq) |-> seq[i].id])

(***************************************************************************)
(* The upstream bulk feed.  A response is one of                           *)
(*   [kind |-> "feed", entries |-> ...]  a JSON object with an "items" map *)
(*   [kind |-> "noitems"]    a JSON object without "items" (an error body) *)
(*   [kind |-> "notjson"]    a body that r.json() cannot parse             *)
(*   [kind |-> "transport"]  the request itself raises                     *)
(* An entry of the feed is its key and the positions of its info array; a  *)
(* raw JSON value is tagged with its Python type.                          *)
(***************************************************************************)
RInt(v) == [t |-> "int", v |-> v]

RFloat(v) == [t |-> "float", v |-> v]

RNull == [t |-> "null", v |-> 0]

\* isinstance(x, (int, float))
IsNumber(raw) == raw.t \in {"int", "float"}

\* float(info[k]) if isinstance(info[k], (int, float)) and info[k] > 0 else 0.0
NormPrice(raw) == IF IsNumber(raw) /\ raw.v > 0 THEN raw.v ELSE 0

\* int(info[k]) if isinstance(info[k], int) else 0
NormTier(raw) == IF raw.t = "int" THEN raw.v ELSE 0

\* info[k] == c
RawEquals(raw, c) == IsNumber(raw) /\ raw.v = c

\* the body of the try block raises: int(asset_id) fails, or info is too
\* short to be indexed up to position 9
Malformed(e) == ~e.keyok \/ e.len < InfoLen

ParseEntry(e) ==
    [id           |-> e.key,
     name         |-> e.name,
     rap          |-> NormPrice(e.rap),
     value        |-> NormPrice(e.value),
     limited_type |-> IF RawEquals(e.dflt, -1) THEN "U" ELSE "L",
     demand       |-> NormTier(e.demand),
     trend        |-> NormTier(e.trend),
     projected    |-> RawEquals(e.projected, 1),
     hyped        |-> RawEquals(e.hyped, 1),
     rare         |-> RawEquals(e.rare, 1)]

\* The loop over data.get("items", {}).items(): an entry whose try block
\* raises is skipped (except Exception: continue), every other entry is
\* assigned to lookup[aid].  A dict keeps a key at the place of its first
\* assignment with the value of its last one, so the lookup is, in the order
\* of the first assignments, the record last assigned to each key.
BuildLookup(entries) ==
    LET n == Len(entries)
        Good(i) == ~Malformed(entries[i])
        Same(i, j) == Good(j) /\ entries[j].key = entries[i].key
        firsts == {i \in 1..n : Good(i) /\ \A j \in 1..(i - 1) : ~Same(i, j)}
        LastOf(i) == CHOOSE j \in i..n :
                         Same(i, j) /\ \A l \in (j + 1)..n : ~Same(i, l)
        Rank(i) == Cardinality({j \in firsts : j <= i})
    IN  List([p \in 1..Cardinality(firsts) |->
            ParseEntry(entries[LastOf(CHOOSE i \in firsts : Rank(i) = p)])])

\* session.get(...) or r.json(...) raises
RequestRaises(resp) == resp.kind \in {"transport", "notjson"}

\* data.get("items", {})
FeedEntries(resp) == IF resp.kind = "feed" THEN resp.entries ELSE <<>>

(***************************************************************************)
(* Scoring.                                                                *)
(***************************************************************************)
\* compute_gap without the test of rap <= 0
compute_gapNoRapGuard(rap, value) ==
    IF value <= 0 THEN IntRat(0) ELSE Rat(100 * (value - rap), value)

compute_gap(rap, value) ==
    IF value <= 0
    THEN IntRat(0)
    ELSE IF rap <= 0
         THEN IntRat(0)
         ELSE Rat(100 * (value - rap), value)

\* score_item without the penalty of a projected item
score_itemNoPenalty(item) ==
    LET gap     == Get(item, "gap", IntRat(0))
        demand  == Get(item, "demand", 0)
        trend   == Get(item, "trend", 0)
        d_score == IF demand > 0 THEN 4 * demand ELSE 0
        t_score == IF trend > 0 THEN 2 * trend ELSE 0
        bonus   == (IF Get(item, "hyped", FALSE) THEN 5 ELSE 0)
                   + (IF Get(item, "rare", FALSE) THEN 5 ELSE 0)
    IN  RatAddInt(gap, d_score + t_score + bonus)

score_item(item) ==
    LET gap     == Get(item, "gap", IntRat(0))
        demand  == Get(item, "demand", 0)
        trend   == Get(item, "trend", 0)
        d_score == IF demand > 0 THEN 4 * demand ELSE 0
        t_score == IF trend > 0 THEN 2 * trend ELSE 0
        bonus   == (IF Get(item, "hyped", FALSE) THEN 5 ELSE 0)
                   + (IF Get(item, "rare", FALSE) THEN 5 ELSE 0)
                   - (IF Get(item, "projected", FALSE) THEN 5 ELSE 0)
    IN  RatAddInt(gap, d_score + t_score + bonus)

\* growth_score with gap > 20 and gap > 10 for its buckets
growth_scoreStrictGap(item) ==
    LET trend  == Get(item, "trend", 0)
        demand == Get(item, "demand", 0)
        gap    == Get(item, "gap", IntRat(0))
        t == CASE trend = 3 -> 40
               [] trend = 2 -> 15
               [] trend = 1 -> -20
               [] OTHER -> 0
        d == CASE demand = 5 -> 30
               [] demand = 4 -> 20
               [] demand = 3 -> 10
               [] demand = 2 -> -10
               [] demand = 1 -> -25
               [] OTHER -> 0
        f == (IF Get(item, "rare", FALSE) THEN 25 ELSE 0)
             + (IF Get(item, "hyped", FALSE) THEN 20 ELSE 0)
             - (IF Get(item, "projected", FALSE) THEN 10 ELSE 0)
        g == IF RatLt(IntRat(20), gap) THEN 15
             ELSE IF RatLt(IntRat(10), gap) THEN 8 ELSE 0
        u == IF Get(item, "limited_type", "") = "U" THEN 10 ELSE 0
    IN  IntRat(t + d + f + g + u)

growth_score(item) ==
    LET trend  == Get(item, "trend", 0)
        demand == Get(item, "demand", 0)
        gap    == Get(item, "gap", IntRat(0))
        t == CASE trend = 3 -> 40
               [] trend = 2 -> 15
               [] trend = 1 -> -20
               [] OTHER -> 0
        d == CASE demand = 5 -> 30
               [] demand = 4 -> 20
               [] demand = 3 -> 10
               [] demand = 2 -> -10
               [] demand = 1 -> -25
               [] OTHER -> 0
        f == (IF Get(item, "rare", FALSE) THEN 25 ELSE 0)
             + (IF Get(item, "hyped", FALSE) THEN 20 ELSE 0)
             - (IF Get(item, "projected", FALSE) THEN 10 ELSE 0)
        g == IF RatLe(IntRat(20), gap) THEN 15
             ELSE IF RatLe(IntRat(10), gap) THEN 8 ELSE 0
        u == IF Get(item, "limited_type", "") = "U" THEN 10 ELSE 0
    IN  IntRat(t + d + f + g + u)

(***************************************************************************)
(* The operations that read a snapshot.  all_items is                      *)
(* list(lookup.values()): a new list of the SAME dict objects that the     *)
(* cache holds, so an assignment item[k] = v is an assignment to the       *)
(* cached record.  Each operator returns the snapshot as the operation     *)
(* leaves it (snap) beside what the operation returns.                     *)
(***************************************************************************)
\* the filter without its test of min_rap
IsCandidateNoMinRap(i, max_price, min_rap) ==
    \/ (i.rap > 0 /\ i.rap <= max_price)
    \/ (i.rap = 0 /\ i.value > 0 /\ i.value <= max_price)

\* the filter of the candidates list comprehension
IsCandidate(i, max_price, min_rap) ==
    \/ (i.rap > 0 /\ i.rap <= max_price /\ i.rap >= min_rap)
    \/ (i.rap = 0 /\ i.value > 0 /\ i.value <= max_price)

\* item["gap"] = gap; item["score"] = score_item(item), with the score read
\* from the record before its gap is assigned
ScoredRecordStale(item, gap) ==
    SetField(SetField(item, "score", score_item(item)), "gap", gap)

\* item["gap"] = gap; item["score"] = score_item(item)
ScoredRecord(item, gap) ==
    LET withGap == SetField(item, "gap", gap)
    IN  SetField(withGap, "score", score_item(withGap))

\* "score" if mode == "score" else "gap", with the two keys exchanged
SortKeySwapped(mode) == IF mode = "score" THEN "gap" ELSE "score"

\* sort_key = "score" if mode == "score" else "gap"
SortKey(mode) == IF mode = "score" THEN "score" ELSE "gap"

\* the slice bound without its cap
ResultLimitNoCap(top_n) == top_n

\* min(top_n, 25)
ResultLimit(top_n) == Min(top_n, ResultCap)

\* the results cut to the limit before they are sorted
TopOfSliceFirst(results, k, limit) == SortDesc(PySliceTo(results, limit), k)

\* results.sort(key=lambda x: x[k], reverse=True); results[:limit]
TopOf(results, k, limit) == PySliceTo(SortDesc(results, k), limit)

run_scan(snap, req) ==
    LET n    == Len(snap)
        cand == List([k \in 1..n |->
                         IsCandidate(snap[k], req.max_price, req.min_rap)])
        gap  == List([k \in 1..n |-> compute_gap(snap[k].rap, snap[k].value)])
        \* a candidate is kept unless gap < min_gap
        kept == List([k \in 1..n |->
                         cand[k] /\ ~RatLt(gap[k], IntRat(req.min_gap))])
        after   == List([k \in 1..n |->
                            IF kept[k] THEN ScoredRecord(snap[k], gap[k])
                                       ELSE snap[k]])
        marked  == List([k \in 1..n |-> [kept |-> kept[k], item |-> after[k]]])
        chosen  == SelectSeq(marked, LAMBDA m : m.kept)
        results == List([k \in 1..Len(chosen) |-> chosen[k].item])
    IN  [snap  |-> after,
         items |-> TopOf(results, SortKey(req.mode), ResultLimit(req.top_n)),
         cand  |-> Cardinality({k \in 1..n : cand[k]}),
         qual  |-> Len(results)]

run_growth_scan(snap, top_n) ==
    LET Kept(i) == ~(i.value <= 0 /\ i.rap <= 0)
        Grown(i) ==
            LET withGap == SetField(i, "gap", compute_gap(i.rap, i.value))
            IN  SetField(withGap, "growth_score", growth_score(withGap))
        after   == List([k \in 1..Len(snap) |->
                       IF Kept(snap[k]) THEN Grown(snap[k]) ELSE snap[k]])
        results == SelectSeq(after, Kept)
    IN  [snap  |-> after,
         items |-> PySliceTo(SortDesc(results, "growth_score"), top_n)]

fetch_new_releases(snap, count) ==
    LET newest == Ids(PySliceTo(SortDesc(snap, "id"), count))
        IsNew(i) == \E k \in 1..Len(newest) : newest[k] = i.id
        after  == List([k \in 1..Len(snap) |->
                      IF IsNew(snap[k])
                      THEN ScoredRecord(snap[k],
                                        compute_gap(snap[k].rap, snap[k].value))
                      ELSE snap[k]])
    IN  [snap  |-> after,
         items |-> PySliceTo(SortDesc(after, "id"), count)]

\* str.lower() on the letters of the model's names
Lower(c) == IF c = "A" THEN "a" ELSE IF c = "B" THEN "b" ELSE c

LowerStr(str) == List([k \in 1..Len(str) |-> Lower(str[k])])

\* name.lower() in i["name"].lower()
NameMatches(query, name) ==
    LET q == LowerStr(query)
        n == LowerStr(name)
    IN  \E k \in 0..(Len(n) - Len(q)) : SubSeq(n, k + 1, k + Len(q)) = q

\* item_cmd, details_cmd, sales_cmd up to the assignment of item["score"]
lookup_item(snap, query) ==
    LET Match(i) == NameMatches(query, i.name)
        hits  == {k \in 1..Len(snap) : Match(snap[k])}
        first == CHOOSE k \in hits : \A j \in hits : k <= j
    IN  IF hits = {}
        THEN [snap |-> snap, items |-> <<>>]
        ELSE LET item == ScoredRecord(snap[first],
                             compute_gap(snap[first].rap, snap[first].value))
             IN  [snap  |-> [snap EXCEPT ![first] = item],
                  items |-> <<item>>]

\* the loop of fetch_forsale_limiteds over catalog_ids: dict(base) is a copy,
\* so the cached records are left alone
ForsaleBase(snap, aid) ==
    IF IndexOfId(snap, aid) # 0
    THEN snap[IndexOfId(snap, aid)]
    ELSE [id |-> aid, name |-> <<>>, rap |-> 0, value |-> 0, demand |-> 0,
          trend |-> 0, projected |-> FALSE, hyped |-> FALSE, rare |-> FALSE]

forsale_results(snap, catalog) ==
    LET Enriched(c) ==
            LET e1 == SetField(ForsaleBase(snap, c.id), "sale_price", c.price)
                e2 == SetField(e1, "gap", compute_gap(e1.rap, e1.value))
            IN  SetField(e2, "score", score_item(e2))
        results == List([k \in 1..Len(catalog) |-> Enriched(catalog[k])])
    IN  SortDesc(results, "score")

(***************************************************************************)
(* The state machine.                                                      *)
(*                                                                         *)
(* A task is idle or suspended on a network request:                       *)
(*   "feed"     inside fetch_rolimons_raw, on the bulk-feed request        *)
(*   "catalog"  inside fetch_forsale_limiteds, on the catalog search       *)
(*   "details"  inside fetch_forsale_limiteds, on the batch details        *)
(* A suspended task keeps its locals: the time it read (now), its          *)
(* arguments (arg) and, in fetch_forsale_limiteds, the catalog entries     *)
(* and the snapshot it holds (held).                                       *)
(***************************************************************************)
Tasks == {"t1", "t2"}

Idle == [pc |-> "idle", op |-> "none", arg |-> None, now |-> 0, held |-> <<>>]

NoCall == [made |-> FALSE, empty |-> TRUE, age |-> 0, issued |-> FALSE, n |-> 0]

NotDone ==
    [op |-> "none", status |-> "none", hit |-> FALSE, resp |-> "none",
     arg |-> None, items |-> <<>>, cand |-> 0, qual |-> 0, sent |-> FALSE]

\* the test of line 66 with <= for <
FreshInclusive(c, t) == c # None /\ (t - c.ts) <= ROLIMONS_CACHE_TTL

\* _rolimons_cache and (now - _rolimons_cache[0]) < ROLIMONS_CACHE_TTL
\* (a tuple of two elements is true, whatever its snapshot holds)
Fresh(c, t) == c # None /\ (t - c.ts) < ROLIMONS_CACHE_TTL

\* what the latest call of fetch_rolimons_raw found and decided
CallRecord(c, t, issued) ==
    [made   |-> TRUE,
     empty  |-> c = None,
     age    |-> IF c = None THEN 0 ELSE t - c.ts,
     issued |-> issued,
     n      |-> IF c = None THEN 0 ELSE Len(c.snap)]

\* the part of an operation that follows its call of fetch_rolimons_raw
Compute(op, arg, snap) ==
    LET Plain(r) == [snap |-> r.snap, items |-> r.items, cand |-> 0, qual |-> 0]
    IN  CASE op \in {"scan", "post"} -> run_scan(snap, arg.req)
          [] op = "growth" -> Plain(run_growth_scan(snap, arg.top_n))
          [] op = "new"    -> Plain(fetch_new_releases(snap, arg.count))
          [] op = "lookup" -> Plain(lookup_item(snap, arg.query))

\* an exception that leaves run_scan is swallowed and an empty result returned
ScanFailureSwallowed(op, arg) ==
    [op |-> op, status |-> "ok", hit |-> FALSE, resp |-> upstream.kind,
     arg |-> arg, items |-> <<>>, cand |-> 0, qual |-> 0, sent |-> op = "post"]

\* the exception of fetch_rolimons_raw leaves the operation: no result, and
\* in post_undervalue the line that sends the embed is not reached
Failure(op, arg) ==
    [op |-> op, status |-> "raised", hit |-> FALSE, resp |-> upstream.kind,
     arg |-> arg, items |-> <<>>, cand |-> 0, qual |-> 0, sent |-> FALSE]

\* the two counts of the returned tuple in each other's place
SuccessCountsSwapped(op, arg, r, hit) ==
    [op |-> op, status |-> "ok", hit |-> hit,
     resp |-> IF hit THEN "none" ELSE upstream.kind,
     arg |-> arg, items |-> r.items, cand |-> r.qual, qual |-> r.cand,
     sent |-> op = "post"]

\* the operation returns: for run_scan the tuple
\* (results[:limit], len(candidates), len(results))
Success(op, arg, r, hit) ==
    [op |-> op, status |-> "ok", hit |-> hit,
     resp |-> IF hit THEN "none" ELSE upstream.kind,
     arg |-> arg, items |-> r.items, cand |-> r.cand, qual |-> r.qual,
     sent |-> op = "post"]

PinOf(arg, r, hit) ==
    [req |-> arg.req, ids |-> Ids(r.items), cand |-> r.cand, qual |-> r.qual,
     hit |-> hit]

\* A reader (run_scan, post_undervalue, run_growth_scan, fetch_new_releases,
\* an item lookup) calls fetch_rolimons_raw.  With a fresh cache the call
\* returns the cached snapshot at once and the operation runs to its end;
\* otherwise the task is suspended on the upstream request.
Begin(t, op, arg, pin) ==
    /\ tasks[t].pc = "idle"
    /\ IF Fresh(cache, now)
       THEN LET r == Compute(op, arg, cache.snap)
            IN  /\ call' = CallRecord(cache, now, FALSE)
                /\ cache' = [cache EXCEPT !.snap = r.snap]
                /\ done' = Success(op, arg, r, TRUE)
                /\ pinned' = IF pin /\ pinned = None /\ op = "scan"
                             THEN PinOf(arg, r, TRUE)
                             ELSE pinned
                /\ UNCHANGED tasks
       ELSE /\ call' = CallRecord(cache, now, TRUE)
            /\ tasks' = [tasks EXCEPT ![t] =
                            [pc |-> "feed", op |-> op, arg |-> arg,
                             now |-> now, held |-> <<>>]]
            /\ UNCHANGED <<cache, done, pinned>>
    /\ UNCHANGED <<now, upstream, client>>

\* run_scan called on its own
RunScan(t, req, pin) == Begin(t, "scan", [req |-> req], pin)

\* post_undervalue: without a channel it returns before it scans
PostUndervalue(t, req, channel) ==
    IF channel
    THEN Begin(t, "post", [req |-> req], FALSE)
    ELSE /\ tasks[t].pc = "idle"
         /\ done' = [NotDone EXCEPT !.op = "post", !.status = "nochannel",
                                    !.arg = [req |-> req]]
         /\ UNCHANGED <<now, upstream, cache, tasks, call, pinned, client>>

GrowthScan(t) == Begin(t, "growth", [top_n |-> GrowthTopN], FALSE)

NewReleases(t, count) == Begin(t, "new", [count |-> count], FALSE)

LookupItem(t, query) == Begin(t, "lookup", [query |-> query], FALSE)

\* The upstream request of a suspended fetch_rolimons_raw ends.  A request
\* that raises leaves the cache alone and the exception leaves the caller;
\* otherwise the lookup built from the response is stored with the time read
\* when the call began, and the caller goes on with it.
FeedReply(t, pin) ==
    LET me == tasks[t]
    IN  /\ me.pc = "feed"
        /\ IF RequestRaises(upstream)
           THEN /\ done' = Failure(me.op, me.arg)
                /\ tasks' = [tasks EXCEPT ![t] = Idle]
                /\ UNCHANGED <<cache, pinned>>
           ELSE LET lookup == BuildLookup(FeedEntries(upstream))
                IN  IF me.op = "forsale"
                    THEN /\ cache' = [ts |-> me.now, snap |-> lookup]
                         /\ tasks' = [tasks EXCEPT ![t] =
                                         [me EXCEPT !.pc = "details",
                                                    !.held = lookup]]
                         /\ pinned' = None
                         /\ UNCHANGED done
                    ELSE LET r == Compute(me.op, me.arg, lookup)
                         IN  /\ cache' = [ts |-> me.now, snap |-> r.snap]
                             /\ done' = Success(me.op, me.arg, r, FALSE)
                             /\ pinned' = IF pin /\ me.op = "scan"
                                          THEN PinOf(me.arg, r, FALSE)
                                          ELSE None
                             /\ tasks' = [tasks EXCEPT ![t] = Idle]
        /\ UNCHANGED <<now, upstream, call, client>>

\* fetch_forsale_limiteds starts: the catalog search is requested
ForsaleStart(t) ==
    /\ tasks[t].pc = "idle"
    /\ tasks' = [tasks EXCEPT ![t] =
                    [pc |-> "catalog", op |-> "forsale", arg |-> None,
                     now |-> 0, held |-> <<>>]]
    /\ UNCHANGED <<now, upstream, cache, call, done, pinned, client>>

\* The catalog search ends with the entries it found (none when the request
\* failed or the status was not 200).  Without entries the operation returns
\* the empty list; otherwise it calls fetch_rolimons_raw.
CatalogReply(t, catalog) ==
    /\ tasks[t].pc = "catalog"
    /\ IF catalog = <<>>
       THEN /\ done' = [NotDone EXCEPT !.op = "forsale", !.status = "ok"]
            /\ tasks' = [tasks EXCEPT ![t] = Idle]
            /\ UNCHANGED call
       ELSE /\ call' = CallRecord(cache, now, ~Fresh(cache, now))
            /\ tasks' = [tasks EXCEPT ![t] =
                  [pc   |-> IF Fresh(cache, now) THEN "details" ELSE "feed",
                   op   |-> "forsale",
                   arg  |-> [catalog |-> catalog],
                   now  |-> now,
                   held |-> IF Fresh(cache, now) THEN cache.snap ELSE <<>>]]
            /\ UNCHANGED done
    /\ UNCHANGED <<now, upstream, cache, pinned, client>>

\* The batch details request ends (it never raises, and its data does not
\* enter gap or score): the results are built from the snapshot held.
DetailsReply(t) ==
    /\ tasks[t].pc = "details"
    /\ done' = [NotDone EXCEPT !.op = "forsale", !.status = "ok",
                   !.items = forsale_results(tasks[t].held, tasks[t].arg.catalog)]
    /\ tasks' = [tasks EXCEPT ![t] = Idle]
    /\ UNCHANGED <<now, upstream, cache, call, pinned, client>>

\* time passes
Tick(d) ==
    /\ now + d <= MaxTime
    /\ now' = now + d
    /\ UNCHANGED <<upstream, cache, tasks, call, done, pinned, client>>

\* the upstream endpoint starts to answer something else
UpstreamChange(resp) ==
    /\ resp # upstream
    /\ upstream' = resp
    /\ UNCHANGED <<now, cache, tasks, call, done, pinned, client>>

(***************************************************************************)
(* Inputs.                                                                 *)
(***************************************************************************)
\* a well-formed entry of the feed
Entry(id, name, rap, value, demand, trend) ==
    [keyok |-> TRUE, key |-> id, len |-> InfoLen, name |-> name,
     rap |-> RInt(rap), value |-> RInt(value), dflt |-> RNull,
     demand |-> RInt(demand), trend |-> RInt(trend),
     projected |-> RNull, hyped |-> RNull, rare |-> RNull]

\* an entry whose info array stops after position 3
ShortEntry(id) == [Entry(id, <<"b">>, 50, 80, 1, 1) EXCEPT !.len = 4]

\* an entry whose key int() rejects
BadKeyEntry == [Entry(0, <<"b">>, 50, 80, 1, 1) EXCEPT !.keyok = FALSE]

Feed(entries) == [kind |-> "feed", entries |-> entries]

\* two records that tie on gap and on score, the larger id listed first
FeedTie ==
    <<Entry(7, <<"A", "b">>, 100, 200, 4, 3),
      Entry(3, <<"b">>, 100, 200, 4, 3)>>

\* one entry that parses and one that does not
FeedPartial == <<Entry(5, <<"a">>, 90, 100, 2, 1), ShortEntry(6)>>

\* gaps 10, -5, 50 and 0 (no RAP), with scores in another order than gaps
FeedGaps ==
    <<Entry(1, <<"a">>, 90, 100, 0, 0),
      [Entry(2, <<"a", "b">>, 105, 100, 5, 5) EXCEPT !.hyped = RInt(1)],
      [Entry(4, <<"B">>, 100, 200, 3, 1) EXCEPT !.projected = RInt(1),
                                                !.dflt = RInt(-1)],
      Entry(8, <<"b", "a">>, 0, 50, 2, 3)>>

\* values the feed should not carry, a key listed twice, entries that do not
\* parse
FeedDirty ==
    <<[Entry(1, <<"a">>, -20, 100, 9, -1) EXCEPT !.rare = RFloat(1)],
      [Entry(2, <<"b">>, 60, 90, 3, 2) EXCEPT !.value = RNull,
                                              !.demand = RFloat(3)],
      BadKeyEntry,
      Entry(3, <<"a", "b">>, 60, 80, 1, 2),
      Entry(3, <<"a">>, 30, 40, 5, 3),
      ShortEntry(9)>>

\* the item of the specification's scoring scenario (gap 33.33, score
\* 55.33), an item at a premium (gap -20), one without RAP, one with a low
\* RAP, and a last one with gap 10
FeedScenario ==
    <<Entry(1, <<"a">>, 100, 150, 4, 3),
      Entry(42, <<"b">>, 120, 100, 0, 0),
      Entry(5, <<"a", "b">>, 0, 50, 1, 1),
      Entry(6, <<"b">>, 40, 80, 2, 2),
      Entry(9, <<"a">>, 90, 100, 0, 0)>>

\* more records than the cap of a result, with many ties
BigFeed ==
    List([i \in 1..BigLen |->
             Entry(i, IF i % 2 = 0 THEN <<"a">> ELSE <<"b">>,
                   20 + 5 * (i % 7), 100, i % 6, i % 4)])

\* what the endpoint may answer while tasks overlap
Responses ==
    {[kind |-> "transport"], [kind |-> "noitems"],
     Feed(FeedTie), Feed(FeedPartial), Feed(<<>>)}

\* what the endpoint may answer to the operations run one at a time
ScanResponses ==
    {[kind |-> "notjson"], [kind |-> "noitems"], Feed(FeedTie), Feed(FeedGaps),
     Feed(FeedDirty), Feed(FeedScenario), Feed(BigFeed)}

Request(max_price, top_n, min_rap, min_gap, mode) ==
    [max_price |-> max_price, top_n |-> top_n, min_rap |-> min_rap,
     min_gap |-> min_gap, mode |-> mode]

\* what hourly_loop passes to post_undervalue
PostRequests ==
    {Request(AUTO_MAX_PRICE, AUTO_TOP_N, AUTO_MIN_RAP, AUTO_MIN_GAP, "score")}

Modes == {"gap", "score", "momentum", "mixed"}

TopNs == {2, 30}

\* the arguments of run_scan: every mode with a small and a large top_n and
\* no filter, a top_n of zero and a negative one, and two requests that filter
ScanRequests ==
    {Request(AUTO_MAX_PRICE, n, AUTO_MIN_RAP, -100, m) : n \in TopNs, m \in Modes}
    \cup {Request(AUTO_MAX_PRICE, 0, AUTO_MIN_RAP, -100, "gap"),
          Request(AUTO_MAX_PRICE, -1, AUTO_MIN_RAP, -100, "score"),
          Request(AUTO_MAX_PRICE, 2, 60, 0, "gap"),
          Request(95, AUTO_TOP_N, AUTO_MIN_RAP, AUTO_MIN_GAP, "score")}

Counts == {1, NEW_ITEM_COUNT}

Queries == {<<"a">>, <<"z">>}

Catalogs == {<<>>, <<[id |-> 3, price |-> 40], [id |-> 9, price |-> 10]>>}

(***************************************************************************)
(* Spec: the hourly loop's scan and the /scan and /top commands run as     *)
(* concurrent tasks over one cache, while time passes and the upstream     *)
(* endpoint changes its answer.                                            *)
(***************************************************************************)
Init ==
    /\ now = 0
    /\ upstream \in Responses
    /\ cache = None
    /\ tasks = [t \in Tasks |-> Idle]
    /\ call = NoCall
    /\ done = NotDone
    /\ pinned = None
    /\ client = "open"

Next ==
    \/ \E t \in Tasks, req \in PostRequests, channel \in BOOLEAN :
           PostUndervalue(t, req, channel)
    \/ \E t \in Tasks : GrowthScan(t)
    \/ \E t \in Tasks : FeedReply(t, FALSE)
    \/ \E d \in TickSteps : Tick(d)
    \/ \E resp \in Responses : UpstreamChange(resp)

Spec == Init /\ [][Next]_vars

(***************************************************************************)
(* SpecScan: every operation that reads the cache, one at a time, within   *)
(* the TTL of one snapshot of an unchanged upstream, with the arguments of *)
(* run_scan drawn from ScanRequests.                                       *)
(***************************************************************************)
InitScan ==
    /\ now = 0
    /\ upstream \in ScanResponses
    /\ cache = None
    /\ tasks = [t \in Tasks |-> Idle]
    /\ call = NoCall
    /\ done = NotDone
    /\ pinned = None
    /\ client = "open"

\* the observer may pin a scan while it has pinned none
Pins == IF pinned = None THEN BOOLEAN ELSE {FALSE}

NextScan ==
    \/ \E req \in ScanRequests, pin \in Pins : RunScan("t1", req, pin)
    \/ GrowthScan("t1")
    \/ \E count \in Counts : NewReleases("t1", count)
    \/ \E query \in Queries : LookupItem("t1", query)
    \/ \E pin \in Pins : FeedReply("t1", pin)
    \/ ForsaleStart("t1")
    \/ \E catalog \in Catalogs : CatalogReply("t1", catalog)
    \/ DetailsReply("t1")

SpecScan == InitScan /\ [][NextScan]_vars

(***************************************************************************)
(* SpecFn: the functions and the fetcher that read no shared state, each   *)
(* applied to arguments drawn from bounded sets; done holds the latest     *)
(* application, its arguments in arg and what it returned in items.        *)
(***************************************************************************)
\* the prices compute_gap is applied to: none, negative, and up to MaxPrice
Prices == (-1)..MaxPrice

\* the tiers growth_score is applied to: those of the feed and one beyond
\* at each end
Tiers == (-1)..(MaxTier + 1)

\* the gaps growth_score is applied to: at, just below and away from the
\* two limits of its buckets
Gaps ==
    {IntRat(-5), IntRat(0), Rat(999, 100), IntRat(10), IntRat(15),
     Rat(1999, 100), IntRat(20), IntRat(50)}

\* the records growth_score is applied to, with and without prices
GrowthItems ==
    [rap : {0, 50}, trend : Tiers, demand : Tiers, rare : BOOLEAN,
     hyped : BOOLEAN, projected : BOOLEAN, gap : Gaps,
     limited_type : {"U", "L"}]

\* a function about to be called with arguments arg
Pending(fn, arg) == [NotDone EXCEPT !.op = fn, !.status = "input", !.arg = arg]

\* the function has returned out
Applied(fn, arg, out) ==
    [NotDone EXCEPT !.op = fn, !.status = "ok", !.arg = arg, !.items = <<out>>]

ApplyGap ==
    /\ done.op = "compute_gap"
    /\ done.status = "input"
    /\ done' = Applied("compute_gap", done.arg,
                       compute_gap(done.arg.rap, done.arg.value))
    /\ UNCHANGED <<now, upstream, cache, tasks, call, pinned, client>>

ApplyGrowth ==
    /\ done.op = "growth_score"
    /\ done.status = "input"
    /\ done' = Applied("growth_score", done.arg, growth_score(done.arg))
    /\ UNCHANGED <<now, upstream, cache, tasks, call, pinned, client>>

(***************************************************************************)
(* fetch_recent_sales.  A response of an economy endpoint is               *)
(*   [kind |-> "object", data |-> ...]  status 200, a JSON object with the *)
(*                                      list the endpoint is asked for     *)
(*   [kind |-> "nokey"]      status 200, a JSON object without that list   *)
(*   [kind |-> "array"]      status 200, a JSON value that is no object    *)
(*   [kind |-> "notjson"]    status 200, a body r.json() cannot parse      *)
(*   [kind |-> "status"]     another status than 200                       *)
(*   [kind |-> "transport"]  the request itself raises                     *)
(* The task keeps in held the requests it has made and their responses.    *)
(***************************************************************************)
SalesResponses ==
    {[kind |-> "object", data |-> <<1, 2>>], [kind |-> "nokey", data |-> <<>>],
     [kind |-> "array", data |-> <<>>], [kind |-> "notjson", data |-> <<>>],
     [kind |-> "status", data |-> <<>>], [kind |-> "transport", data |-> <<>>]}

\* the attempt returns whatever the status of the response
SalesAcceptedAnyStatus(resp) == resp.kind \in {"object", "nokey", "status"}

\* the attempt reaches its return: r.status == 200, r.json() and data.get()
\* do not raise
SalesAccepted(resp) == resp.kind \in {"object", "nokey"}

\* data.get(key, [])
SalesData(resp) == IF resp.kind = "object" THEN resp.data ELSE <<>>

\* the result dict, as initialised and as each attempt fills it
SalesResult(points, records, source) ==
    [price_datapoints |-> points, resale_records |-> records,
     source |-> source]

\* fetch_recent_sales is called and requests the resale data
SalesStart(t) ==
    /\ tasks[t].pc = "idle"
    /\ done.op = "fetch_recent_sales"
    /\ done.status = "input"
    /\ done' = [done EXCEPT !.status = "running"]
    /\ tasks' = [tasks EXCEPT ![t] =
                    [pc |-> "salesA", op |-> "sales", arg |-> done.arg,
                     now |-> 0, held |-> <<>>]]
    /\ UNCHANGED <<now, upstream, cache, call, pinned, client>>

\* attempt 1 ends: with an accepted response the result is returned,
\* otherwise the resale records are requested
SalesReplyA(t, resp) ==
    LET me    == tasks[t]
        tried == Append(me.held, [endpoint |-> "A", resp |-> resp])
    IN  /\ me.pc = "salesA"
        /\ IF SalesAccepted(resp)
           THEN /\ done' = Applied("fetch_recent_sales",
                                   [me.arg EXCEPT !.tried = tried],
                                   SalesResult(SalesData(resp), <<>>,
                                               "Roblox Economy API"))
                /\ tasks' = [tasks EXCEPT ![t] = Idle]
           ELSE /\ tasks' = [tasks EXCEPT ![t] =
                                [me EXCEPT !.pc = "salesB", !.held = tried]]
                /\ UNCHANGED done
        /\ UNCHANGED <<now, upstream, cache, call, pinned, client>>

\* attempt 2 ends: with an accepted response the result is returned,
\* otherwise the result names the fallback
SalesReplyB(t, resp) ==
    LET me    == tasks[t]
        tried == Append(me.held, [endpoint |-> "B", resp |-> resp])
    IN  /\ me.pc = "salesB"
        /\ done' = Applied("fetch_recent_sales",
                           [me.arg EXCEPT !.tried = tried],
                           IF SalesAccepted(resp)
                           THEN SalesResult(<<>>, SalesData(resp),
                                            "Roblox Resale Records")
                           ELSE SalesResult(<<>>, <<>>, "rolimons_fallback"))
        /\ tasks' = [tasks EXCEPT ![t] = Idle]
        /\ UNCHANGED <<now, upstream, cache, call, pinned, client>>

InitFn ==
    /\ now = 0
    /\ upstream = [kind |-> "transport"]
    /\ cache = None
    /\ tasks = [t \in Tasks |-> Idle]
    /\ call = NoCall
    /\ done \in {Pending("compute_gap", [rap |-> rap, value |-> value]) :
                     rap \in Prices, value \in Prices}
                \cup {Pending("growth_score", item) : item \in GrowthItems}
                \cup {Pending("fetch_recent_sales",
                              [asset_id |-> 1, tried |-> <<>>])}
    /\ pinned = None
    /\ client = "open"

NextFn ==
    \/ ApplyGap
    \/ ApplyGrowth
    \/ SalesStart("t1")
    \/ \E resp \in SalesResponses : SalesReplyA("t1", resp)
    \/ \E resp \in SalesResponses : SalesReplyB("t1", resp)

SpecFn == InitFn /\ [][NextFn]_vars

(***************************************************************************)
(* hourly_loop.  on_ready creates the task; each round of its while loop   *)
(* awaits post_undervalue, fetch_forsale_limiteds, fetch_new_releases and  *)
(* run_growth_scan in turn and then sleeps SCAN_INTERVAL.  The task is     *)
(* suspended                                                               *)
(*   "loop_top"           before the test of the while loop                *)
(*   "loop_feed"          in run_scan, on the bulk-feed request            *)
(*   "loop_catalog"       in fetch_forsale_limiteds, on the catalog search *)
(*   "loop_feed_forsale"  in fetch_forsale_limiteds, on the bulk feed      *)
(*   "loop_details"       in fetch_forsale_limiteds, on the batch details  *)
(*   "loop_feed_new"      in fetch_new_releases, on the bulk feed          *)
(*   "loop_feed_growth"   in run_growth_scan, on the bulk feed             *)
(*   "loop_sleep"         in asyncio.sleep(SCAN_INTERVAL)                  *)
(* and is over at "ended" (the loop was left, the client closed) or at     *)
(* "dead" (an exception left hourly_loop).  No line of hourly_loop or of   *)
(* post_undervalue catches an exception.                                   *)
(***************************************************************************)
LoopTask == "t1"

\* post_undervalue with its defaults
LoopScanArg ==
    [req |-> Request(AUTO_MAX_PRICE, AUTO_TOP_N, AUTO_MIN_RAP, AUTO_MIN_GAP,
                     "score")]

LoopNewArg == [count |-> NEW_ITEM_COUNT]

LoopGrowthArg == [top_n |-> GrowthTopN]

\* the loop task suspended at pc
LoopAt(t, pc, arg, held) ==
    [tasks EXCEPT ![t] = [pc |-> pc, op |-> "hourly", arg |-> arg,
                          now |-> now, held |-> held]]

\* an exception leaves the operation op, and with it hourly_loop
LoopDies(t, op, arg) ==
    /\ done' = Failure(op, arg)
    /\ tasks' = LoopAt(t, "dead", None, <<>>)

\* run_growth_scan and what follows it, the cache holding c and d being the
\* outcome of the operation before: the three embeds are sent and the task
\* sleeps
LoopGrowth(t, c, d) ==
    /\ call' = CallRecord(c, now, ~Fresh(c, now))
    /\ IF Fresh(c, now)
       THEN LET r == Compute("growth", LoopGrowthArg, c.snap)
            IN  /\ cache' = [c EXCEPT !.snap = r.snap]
                /\ done' = Success("growth", LoopGrowthArg, r, TRUE)
                /\ tasks' = LoopAt(t, "loop_sleep", None, <<>>)
       ELSE /\ cache' = c
            /\ done' = d
            /\ tasks' = LoopAt(t, "loop_feed_growth", None, <<>>)

\* fetch_new_releases and what follows it
LoopNew(t, c, d) ==
    IF Fresh(c, now)
    THEN LET r == Compute("new", LoopNewArg, c.snap)
         IN  LoopGrowth(t, [c EXCEPT !.snap = r.snap],
                        Success("new", LoopNewArg, r, TRUE))
    ELSE /\ call' = CallRecord(c, now, TRUE)
         /\ cache' = c
         /\ done' = d
         /\ tasks' = LoopAt(t, "loop_feed_new", None, <<>>)

\* on_ready: the client is ready and the task of hourly_loop is created;
\* client.wait_until_ready() returns at once
OnReady ==
    /\ client = "connecting"
    /\ client' = "open"
    /\ tasks' = LoopAt(LoopTask, "loop_top", None, <<>>)
    /\ UNCHANGED <<now, upstream, cache, call, done, pinned>>

\* the client is closed
Close ==
    /\ client = "open"
    /\ client' = "closed"
    /\ UNCHANGED <<now, upstream, cache, tasks, call, done, pinned>>

\* The test of the while loop and, in an open client, post_undervalue up to
\* its first suspension.  Without a channel post_undervalue returns, so
\* does the second _get_channel, and the task sleeps.
LoopIterate(t, channel) ==
    /\ tasks[t].pc = "loop_top"
    /\ IF client = "closed"
       THEN /\ tasks' = LoopAt(t, "ended", None, <<>>)
            /\ UNCHANGED <<cache, call, done>>
       ELSE IF ~channel
       THEN /\ done' = [NotDone EXCEPT !.op = "post", !.status = "nochannel",
                                       !.arg = LoopScanArg]
            /\ tasks' = LoopAt(t, "loop_sleep", None, <<>>)
            /\ UNCHANGED <<cache, call>>
       ELSE IF Fresh(cache, now)
       THEN LET r == Compute("post", LoopScanArg, cache.snap)
            IN  /\ call' = CallRecord(cache, now, FALSE)
                /\ cache' = [cache EXCEPT !.snap = r.snap]
                /\ done' = Success("post", LoopScanArg, r, TRUE)
                /\ tasks' = LoopAt(t, "loop_catalog", None, <<>>)
       ELSE /\ call' = CallRecord(cache, now, TRUE)
            /\ tasks' = LoopAt(t, "loop_feed", None, <<>>)
            /\ UNCHANGED <<cache, done>>
    /\ UNCHANGED <<now, upstream, pinned, client>>

\* the bulk-feed request of the scheduled scan ends: its exception leaves
\* run_scan, post_undervalue and hourly_loop; otherwise the embed is sent
\* and fetch_forsale_limiteds requests the catalog search
LoopScanFeedReply(t) ==
    LET me == tasks[t]
    IN  /\ me.pc = "loop_feed"
        /\ IF RequestRaises(upstream)
           THEN /\ LoopDies(t, "post", LoopScanArg)
                /\ UNCHANGED <<cache, pinned>>
           ELSE LET r == Compute("post", LoopScanArg,
                                 BuildLookup(FeedEntries(upstream)))
                IN  /\ cache' = [ts |-> me.now, snap |-> r.snap]
                    /\ done' = Success("post", LoopScanArg, r, FALSE)
                    /\ tasks' = LoopAt(t, "loop_catalog", None, <<>>)
                    /\ pinned' = None
        /\ UNCHANGED <<now, upstream, call, client>>

\* the catalog search of fetch_forsale_limiteds ends
LoopCatalogReply(t, catalog) ==
    /\ tasks[t].pc = "loop_catalog"
    /\ IF catalog = <<>>
       THEN LoopNew(t, cache,
                    [NotDone EXCEPT !.op = "forsale", !.status = "ok"])
       ELSE /\ call' = CallRecord(cache, now, ~Fresh(cache, now))
            /\ tasks' = IF Fresh(cache, now)
                        THEN LoopAt(t, "loop_details",
                                    [catalog |-> catalog], cache.snap)
                        ELSE LoopAt(t, "loop_feed_forsale",
                                    [catalog |-> catalog], <<>>)
            /\ UNCHANGED <<cache, done>>
    /\ UNCHANGED <<now, upstream, pinned, client>>

\* the bulk-feed request of fetch_forsale_limiteds ends
LoopForsaleFeedReply(t) ==
    LET me == tasks[t]
    IN  /\ me.pc = "loop_feed_forsale"
        /\ IF RequestRaises(upstream)
           THEN /\ LoopDies(t, "forsale", me.arg)
                /\ UNCHANGED <<cache, pinned>>
           ELSE LET lookup == BuildLookup(FeedEntries(upstream))
                IN  /\ cache' = [ts |-> me.now, snap |-> lookup]
                    /\ tasks' = LoopAt(t, "loop_details", me.arg, lookup)
                    /\ pinned' = None
                    /\ UNCHANGED done
        /\ UNCHANGED <<now, upstream, call, client>>

\* the batch details request ends and fetch_forsale_limiteds returns
LoopDetailsReply(t) ==
    LET me == tasks[t]
    IN  /\ me.pc = "loop_details"
        /\ LoopNew(t, cache,
                   [NotDone EXCEPT !.op = "forsale", !.status = "ok",
                       !.items = forsale_results(me.held, me.arg.catalog)])
        /\ UNCHANGED <<now, upstream, pinned, client>>

\* the bulk-feed request of fetch_new_releases ends
LoopNewFeedReply(t) ==
    LET me == tasks[t]
    IN  /\ me.pc = "loop_feed_new"
        /\ IF RequestRaises(upstream)
           THEN /\ LoopDies(t, "new", LoopNewArg)
                /\ UNCHANGED <<cache, call, pinned>>
           ELSE LET r == Compute("new", LoopNewArg,
                                 BuildLookup(FeedEntries(upstream)))
                IN  /\ LoopGrowth(t, [ts |-> me.now, snap |-> r.snap],
                                  Success("new", LoopNewArg, r, FALSE))
                    /\ pinned' = None
        /\ UNCHANGED <<now, upstream, client>>

\* the bulk-feed request of run_growth_scan ends
LoopGrowthFeedReply(t) ==
    LET me == tasks[t]
    IN  /\ me.pc = "loop_feed_growth"
        /\ IF RequestRaises(upstream)
           THEN /\ LoopDies(t, "growth", LoopGrowthArg)
                /\ UNCHANGED <<cache, pinned>>
           ELSE LET r == Compute("growth", LoopGrowthArg,
                                 BuildLookup(FeedEntries(upstream)))
                IN  /\ cache' = [ts |-> me.now, snap |-> r.snap]
                    /\ done' = Success("growth", LoopGrowthArg, r, FALSE)
                    /\ tasks' = LoopAt(t, "loop_sleep", None, <<>>)
                    /\ pinned' = None
        /\ UNCHANGED <<now, upstream, call, client>>

\* asyncio.sleep(SCAN_INTERVAL) returns
LoopSleepEnds(t) ==
    /\ tasks[t].pc = "loop_sleep"
    /\ now + SCAN_INTERVAL <= MaxElapse + MaxRounds * SCAN_INTERVAL
    /\ now' = now + SCAN_INTERVAL
    /\ tasks' = [tasks EXCEPT ![t] = [@ EXCEPT !.pc = "loop_top"]]
    /\ UNCHANGED <<upstream, cache, call, done, pinned, client>>

\* Time passes within a round of the loop, a whole time-to-live at once: a
\* cache stored d ago, fresh until now, is stale from now on.
Elapse(d) ==
    /\ (now % SCAN_INTERVAL) + d <= MaxElapse
    /\ now' = now + d
    /\ UNCHANGED <<upstream, cache, tasks, call, done, pinned, client>>

\* what the endpoint may answer while the loop runs
LoopResponses == {[kind |-> "transport"], Feed(FeedTie), Feed(FeedPartial)}

(***************************************************************************)
(* SpecLoop: the client becomes ready and hourly_loop runs, beside a /top  *)
(* command, while time passes, the upstream endpoint changes its answer    *)
(* and the client may be closed.                                           *)
(***************************************************************************)
InitLoop ==
    /\ now = 0
    /\ upstream \in LoopResponses
    /\ cache = None
    /\ tasks = [t \in Tasks |-> Idle]
    /\ call = NoCall
    /\ done = NotDone
    /\ pinned = None
    /\ client = "connecting"

NextLoop ==
    \/ OnReady
    \/ Close
    \/ \E channel \in BOOLEAN : LoopIterate(LoopTask, channel)
    \/ LoopScanFeedReply(LoopTask)
    \/ \E catalog \in Catalogs : LoopCatalogReply(LoopTask, catalog)
    \/ LoopForsaleFeedReply(LoopTask)
    \/ LoopDetailsReply(LoopTask)
    \/ LoopNewFeedReply(LoopTask)
    \/ LoopGrowthFeedReply(LoopTask)
    \/ LoopSleepEnds(LoopTask)
    \/ GrowthScan("t2")
    \/ FeedReply("t2", FALSE)
    \/ Elapse(ROLIMONS_CACHE_TTL)
    \/ \E resp \in LoopResponses : UpstreamChange(resp)

SpecLoop == InitLoop /\ [][NextLoop]_vars

(***************************************************************************)
(* The properties claimed of the program.                                  *)
(***************************************************************************)
\* the result of the latest run_scan that was called on its own
ScanDone == done.op = "scan" /\ done.status = "ok"

\* the arithmetic of the keys the specification gives the ranking modes
RatNeg(a) == [n |-> -a.n, d |-> a.d]

RatAbs(a) == [n |-> Abs(a.n), d |-> a.d]

RatSub(a, b) == Rat(a.n * b.d - b.n * a.d, a.d * b.d)

RatMul(a, b) == Rat(a.n * b.n, a.d * b.d)

RatAdd(a, b) == Rat(a.n * b.d + b.n * a.d, a.d * b.d)

\* the sort key that the specification gives a ranking mode, d the damping
\* of the mixed mode
ModeKey(mode, item, d) ==
    CASE mode = "gap"      -> item.gap
      [] mode = "score"    -> item.score
      [] mode = "momentum" -> RatNeg(RatAbs(RatAddInt(item.gap, 5)))
      [] mode = "mixed"    -> RatSub(item.gap, RatMul(RatAbs(item.gap), d))

\* the ends of the range 0.15..0.2 of the damping
Dampings == {Rat(15, 100), Rat(20, 100)}

\* items is in non-increasing order of Key
NonIncreasing(items, Key(_)) ==
    \A i \in 1..(Len(items) - 1) : RatLe(Key(items[i + 1]), Key(items[i]))

\* C1: single-flight refresh: while calls to fetch_rolimons_raw overlap on
\* an empty or stale cache, at most one of them is suspended on an upstream
\* bulk-feed request.
SingleFlight ==
    Cardinality({t \in Tasks : tasks[t].pc = "feed"}) <= 1

\* C2, as claimed: a call to fetch_rolimons_raw issues an upstream request
\* if and only if the cache is empty or the age of its snapshot exceeds the
\* TTL, so that an age of exactly the TTL is served from the cache.
FreshnessAsClaimed ==
    call.made =>
        (call.issued <=> (call.empty \/ call.age > ROLIMONS_CACHE_TTL))

\* C2, amended: a call to fetch_rolimons_raw issues an upstream request if
\* and only if the cache is empty or the age of its snapshot is at least the
\* TTL; a younger snapshot is returned without a request, also when it holds
\* no item.
FreshnessAsCoded ==
    /\ call.made =>
           (call.issued <=> (call.empty \/ call.age >= ROLIMONS_CACHE_TTL))
    /\ (call.made /\ ~call.empty /\ call.n = 0
            /\ call.age < ROLIMONS_CACHE_TTL) => ~call.issued

\* C2: a call found a snapshot aged exactly the TTL and issued a request
RefreshAtExactTTL ==
    call.made /\ ~call.empty /\ call.age = ROLIMONS_CACHE_TTL /\ call.issued

\* C3: no negative caching: when the refresh of a suspended call ends on a
\* response that is not a feed (the request raises, or the body carries no
\* "items"), the cache holds the pair it held before.
NoNegativeCaching ==
    [][\A t \in Tasks :
          (tasks[t].pc = "feed" /\ tasks'[t].pc # "feed"
               /\ upstream.kind # "feed")
              => cache' = cache]_vars

\* C4: published cache entries are immutable: the cached snapshot is at all
\* times a snapshot as fetch_rolimons_raw builds it from a response, no
\* record of it with a field added or changed by a reader.
CachedRecordsImmutable ==
    cache # None =>
        \E resp \in Responses :
            ~RequestRaises(resp) /\ cache.snap = BuildLookup(FeedEntries(resp))

\* C5: no partial data: a refresh that publishes a snapshot publishes one
\* record for every entry of the upstream response.
NoPartialData ==
    [][\A t \in Tasks :
          (tasks[t].pc = "feed" /\ tasks'[t].pc # "feed" /\ cache' # cache)
              => Len(cache'.snap) = Len(FeedEntries(upstream))]_vars

\* C6: the scan of post_undervalue ends in failure if and only if it found
\* no fresh snapshot and its upstream request raised; it then returns no
\* result and no embed is sent.  With a snapshot (a fresh one, or one the
\* request delivers) it completes with a result, which is sent.
ScanFailsOnlyWithFeed ==
    (done.op = "post" /\ done.status # "nochannel") =>
        /\ done.status \in {"ok", "raised"}
        /\ done.status = "raised"
               <=> (~done.hit /\ done.resp \in {"transport", "notjson"})
        /\ done.status = "raised"
               => (done.items = <<>> /\ done.cand = 0 /\ done.qual = 0
                       /\ ~done.sent)
        /\ done.status = "ok" => done.sent

\* C6: a scan failed on its upstream request although a stale snapshot was
\* cached, and nothing was sent
ScanFailedNothingSent ==
    /\ done.op = "post"
    /\ done.status = "raised"
    /\ ~done.sent
    /\ cache # None
    /\ Len(cache.snap) > 0

\* C7, as claimed: whatever integer top_n is passed, run_scan returns at
\* most min(top_n, 25) items.
TruncationAsClaimed ==
    ScanDone => Len(done.items) <= Min(done.arg.req.top_n, ResultCap)

\* C7, amended: for top_n >= 0 run_scan returns the first min(top_n, 25) of
\* the qualified items (all of them when there are fewer); for top_n < 0 it
\* returns all but the last -top_n qualified items, the cap of 25 not
\* applied.
TruncationAsCoded ==
    ScanDone =>
        LET top_n == done.arg.req.top_n
        IN  /\ top_n >= 0 =>
                   Len(done.items) = Min(done.qual, Min(top_n, ResultCap))
            /\ top_n < 0 => Len(done.items) = Max(0, done.qual + top_n)

\* C7: more than 25 items qualified, more than 25 were asked for, and 25
\* were returned
CappedAtResultCap ==
    /\ ScanDone
    /\ done.arg.req.top_n > ResultCap
    /\ done.qual > ResultCap
    /\ Len(done.items) = ResultCap

\* C8, as claimed: in each of the modes gap, score, momentum and mixed the
\* items run_scan returns are in non-increasing order of that mode's key.
OrderedByModeKey ==
    ScanDone =>
        \A d \in Dampings :
            NonIncreasing(done.items,
                          LAMBDA i : ModeKey(done.arg.req.mode, i, d))

\* C8, amended: in mode score the items run_scan returns are in
\* non-increasing order of the composite score; in every other mode, momentum
\* included, they are in non-increasing order of the gap, which in mode mixed
\* is also the order of the damped gap.
OrderedBySortKey ==
    ScanDone =>
        LET mode == done.arg.req.mode
        IN  /\ mode = "score" => NonIncreasing(done.items, LAMBDA i : i.score)
            /\ mode # "score" => NonIncreasing(done.items, LAMBDA i : i.gap)
            /\ mode = "mixed" =>
                   \A d \in Dampings :
                       NonIncreasing(done.items,
                                     LAMBDA i : ModeKey("mixed", i, d))

\* C8: a scan in mode momentum returned items in descending order of gap
\* that are not in order of the momentum key
MomentumSortedByGap ==
    /\ ScanDone
    /\ done.arg.req.mode = "momentum"
    /\ Len(done.items) >= 2
    /\ NonIncreasing(done.items, LAMBDA i : i.gap)
    /\ \E k \in 1..(Len(done.items) - 1) :
           RatLt(ModeKey("momentum", done.items[k], IntRat(0)),
                 ModeKey("momentum", done.items[k + 1], IntRat(0)))

\* C9: tie-break: of two items of a run_scan result whose sort keys are
\* equal, the one with the smaller id comes first, in every ranking mode.
TieBreakAscendingId ==
    ScanDone =>
        \A d \in Dampings :
            \A i, j \in 1..Len(done.items) :
                (i < j /\ ModeKey(done.arg.req.mode, done.items[i], d)
                              = ModeKey(done.arg.req.mode, done.items[j], d))
                    => done.items[i].id < done.items[j].id

\* C10: idempotence: a run_scan served from the cached snapshot returns the
\* ordered ids and the counts that an earlier run_scan with the same request
\* returned on that snapshot, whatever other readers ran in between.
ScanIdempotent ==
    (pinned # None /\ ScanDone /\ done.arg.req = pinned.req) =>
        /\ Ids(done.items) = pinned.ids
        /\ done.cand = pinned.cand
        /\ done.qual = pinned.qual

\* C10: a scan was repeated from the cache, with several items in its
\* result, after the scan that fetched the snapshot and after a growth scan
\* that wrote to the cached records
ScanRepeatedAfterReaders ==
    /\ pinned # None
    /\ ~pinned.hit
    /\ ScanDone
    /\ done.hit
    /\ done.arg.req = pinned.req
    /\ Len(done.items) >= 2
    /\ \E k \in 1..Len(cache.snap) : "growth_score" \in DOMAIN cache.snap[k]

\* C11, as claimed: compute_gap returns (value - rap) / value * 100 for
\* every value > 0 and every rap, 100 at rap = 0 included, and 0 for every
\* value <= 0.
GapAsClaimed ==
    (done.op = "compute_gap" /\ done.status = "ok") =>
        LET rap   == done.arg.rap
            value == done.arg.value
            out   == done.items[1]
        IN  /\ value > 0 => out.n * value = 100 * (value - rap) * out.d
            /\ value <= 0 => out = IntRat(0)

\* C11, amended: compute_gap returns (value - rap) / value * 100 for every
\* value > 0 and every rap > 0, and 0 whenever value <= 0 or rap <= 0.
GapAsCoded ==
    (done.op = "compute_gap" /\ done.status = "ok") =>
        LET rap   == done.arg.rap
            value == done.arg.value
            out   == done.items[1]
        IN  /\ (value > 0 /\ rap > 0) =>
                   out.n * value = 100 * (value - rap) * out.d
            /\ (value <= 0 \/ rap <= 0) => out = IntRat(0)

\* C11: compute_gap was applied to a value above 0 with no RAP and gave 0
GapZeroWithoutRap ==
    /\ done.op = "compute_gap"
    /\ done.status = "ok"
    /\ done.arg.rap = 0
    /\ done.arg.value > 0
    /\ done.items[1] = IntRat(0)

\* the composite score as the specification writes it, for a record whose
\* gap is gap
CompositeScore(item, gap) ==
    LET d_part == IF item.demand > 0 THEN Rat(item.demand * 20, 5)
                                     ELSE IntRat(0)
        t_part == IF item.trend > 0 THEN Rat(item.trend * 10, 5)
                                    ELSE IntRat(0)
        bonus  == (IF item.hyped THEN 5 ELSE 0) + (IF item.rare THEN 5 ELSE 0)
                  - (IF item.projected THEN 5 ELSE 0)
    IN  RatAddInt(RatAdd(RatAdd(gap, d_part), t_part), bonus)

\* C12: every item returned by run_scan and by fetch_forsale_limiteds
\* carries the gap computed from its own rap and value, and the score
\* gap + demand/5*20 (demand > 0) + trend/5*10 (trend > 0) + 5 if hyped
\* + 5 if rare - 5 if projected on that gap, whatever an earlier operation
\* left on the cached record.
ScoreIsComposite ==
    (done.op \in {"scan", "forsale"} /\ done.status = "ok") =>
        \A k \in 1..Len(done.items) :
            LET item == done.items[k]
            IN  /\ item.gap = compute_gap(item.rap, item.value)
                /\ item.score = CompositeScore(item, item.gap)

\* C12: a scan returned the item of the scenario (rap 100, value 150,
\* demand 4, trend 3) with gap 100/3 and score 166/3
ScenarioScored ==
    /\ ScanDone
    /\ \E k \in 1..Len(done.items) :
           LET item == done.items[k]
           IN  /\ item.rap = 100 /\ item.value = 150
               /\ item.demand = 4 /\ item.trend = 3
               /\ item.gap = Rat(100, 3)
               /\ item.score = Rat(166, 3)

\* the growth score as the specification tabulates it
GrowthTable(item) ==
    LET trend  == CASE item.trend = 3 -> 40
                    [] item.trend = 2 -> 15
                    [] item.trend = 1 -> -20
                    [] OTHER -> 0
        demand == CASE item.demand = 5 -> 30
                    [] item.demand = 4 -> 20
                    [] item.demand = 3 -> 10
                    [] item.demand = 2 -> -10
                    [] item.demand = 1 -> -25
                    [] OTHER -> 0
        flags  == (IF item.rare THEN 25 ELSE 0) + (IF item.hyped THEN 20 ELSE 0)
                  - (IF item.projected THEN 10 ELSE 0)
        bucket == IF item.gap.n >= 20 * item.gap.d THEN 15
                  ELSE IF item.gap.n >= 10 * item.gap.d THEN 8 ELSE 0
        kind   == IF item.limited_type = "U" THEN 10 ELSE 0
    IN  trend + demand + flags + bucket + kind

CatalogItemInvariant ==
    cache # None =>
        \A k \in 1..Len(cache.snap) :
            LET item == cache.snap[k]
            IN  /\ item.rap >= 0
                /\ item.value >= 0
                /\ item.demand \in 0..MaxTier
                /\ item.trend \in 0..MaxTier

\* C15: discovery never propagates: fetch_forsale_limiteds always ends by
\* returning a list, never by raising, whichever of its requests fail.
ForsaleNeverRaises ==
    done.op = "forsale" => done.status = "ok"

\* a response that is structurally valid: status 200 and a JSON object
StructurallyValid(resp) == resp.kind \in {"object", "nokey"}

\* C16: fetch_recent_sales requests endpoint B only after endpoint A gave
\* no structurally valid response, names the fallback only after both
\* failed, returns the data of the first endpoint that gave a valid
\* response under the name of that source, and never raises.
FallbackChainOrder ==
    /\ done.op = "fetch_recent_sales" =>
           done.status \in {"input", "running", "ok"}
    /\ \A t \in Tasks :
           tasks[t].pc = "salesB" =>
               /\ Len(tasks[t].held) = 1
               /\ tasks[t].held[1].endpoint = "A"
               /\ ~StructurallyValid(tasks[t].held[1].resp)
    /\ (done.op = "fetch_recent_sales" /\ done.status = "ok") =>
           LET tried == done.arg.tried
               out   == done.items[1]
               n     == Len(tried)
           IN  /\ n \in 1..2
               /\ tried[1].endpoint = "A"
               /\ n = 2 => (tried[2].endpoint = "B"
                               /\ ~StructurallyValid(tried[1].resp))
               /\ out.source = "Roblox Economy API"
                      <=> (n = 1 /\ StructurallyValid(tried[1].resp))
               /\ out.source = "Roblox Resale Records"
                      <=> (n = 2 /\ StructurallyValid(tried[2].resp))
               /\ out.source = "rolimons_fallback"
                      <=> (n = 2 /\ ~StructurallyValid(tried[2].resp))
               /\ out.source = "Roblox Economy API" =>
                      (out.price_datapoints = tried[1].resp.data
                           /\ out.resale_records = <<>>)
               /\ out.source = "Roblox Resale Records" =>
                      (out.resale_records = tried[2].resp.data
                           /\ out.price_datapoints = <<>>)
               /\ out.source = "rolimons_fallback" =>
                      (out.price_datapoints = <<>> /\ out.resale_records = <<>>)

\* C16: endpoint A answered 200 with a JSON value that is no object, and
\* the records of endpoint B were returned under B's name
SalesFromSecondEndpoint ==
    /\ done.op = "fetch_recent_sales"
    /\ done.status = "ok"
    /\ Len(done.arg.tried) = 2
    /\ done.arg.tried[1].resp.kind = "array"
    /\ done.arg.tried[2].resp.kind = "object"
    /\ done.items[1].source = "Roblox Resale Records"
    /\ done.items[1].resale_records = done.arg.tried[2].resp.data
    /\ done.items[1].resale_records # <<>>

\* the two cheap filters as the specification states them
PassedBothFilters(item, req) ==
    item.rap <= req.max_price /\ item.rap >= req.min_rap

\* the two ways to be a candidate: a RAP within the two limits, or no RAP
\* and a community value within the price ceiling
PassedPreFilter(item, req) ==
    \/ (item.rap > 0 /\ PassedBothFilters(item, req))
    \/ (item.rap = 0 /\ item.value > 0 /\ item.value <= req.max_price)

\* the number of records of the cached snapshot that satisfy Test
CountInSnapshot(Test(_)) ==
    Cardinality({k \in 1..Len(cache.snap) : Test(cache.snap[k])})

\* C17, as claimed: every item run_scan counts as a candidate, and every
\* item it returns, has a RAP of at most maxPrice and of at least
\* minReferencePrice.
PreFilterAsClaimed ==
    ScanDone =>
        /\ \A k \in 1..Len(done.items) :
               PassedBothFilters(done.items[k], done.arg.req)
        /\ done.cand <= CountInSnapshot(
                            LAMBDA i : PassedBothFilters(i, done.arg.req))

\* C17, amended: every item run_scan counts as a candidate, and every item
\* it returns, either has a RAP above 0 that is at most maxPrice and at
\* least minReferencePrice, or has no RAP (0) and a community value above 0
\* that is at most maxPrice; minReferencePrice is not applied to an item
\* without RAP.
PreFilterAsCoded ==
    ScanDone =>
        /\ \A k \in 1..Len(done.items) :
               PassedPreFilter(done.items[k], done.arg.req)
        /\ done.cand = CountInSnapshot(
                           LAMBDA i : PassedPreFilter(i, done.arg.req))

\* C17: a scan with a minimum RAP above 0 counted an item without RAP among
\* its candidates
CandidateWithoutRap ==
    /\ ScanDone
    /\ done.arg.req.min_rap > 0
    /\ done.cand > CountInSnapshot(
                       LAMBDA i : PassedBothFilters(i, done.arg.req))
    /\ \E k \in 1..Len(cache.snap) :
           /\ cache.snap[k].rap = 0
           /\ PassedPreFilter(cache.snap[k], done.arg.req)

\* a candidate whose gap is not below the minimum gap of the request
Qualified(item, req) ==
    /\ PassedPreFilter(item, req)
    /\ ~RatLt(compute_gap(item.rap, item.value), IntRat(req.min_gap))

\* the key run_scan sorts a record by, computed from the record's feed data
FreshKey(item, mode) ==
    LET gap == compute_gap(item.rap, item.value)
    IN  IF mode = "score" THEN CompositeScore(item, gap) ELSE gap

\* the records of the cached snapshot that qualify and were not returned
LeftOut ==
    {k \in 1..Len(cache.snap) :
        /\ Qualified(cache.snap[k], done.arg.req)
        /\ \A j \in 1..Len(done.items) : done.items[j].id # cache.snap[k].id}

\* C18: truncation after the full sort: for top_n >= 0 the items run_scan
\* returns are min(top_n, 25) of the qualified items (all, when there are
\* fewer), and no qualified item left out has a sort key strictly greater
\* than the key of a returned item, wherever it stands in the feed.
TruncationAfterSort ==
    (ScanDone /\ done.arg.req.top_n >= 0) =>
        LET req == done.arg.req
        IN  /\ \A j \in 1..Len(done.items) : Qualified(done.items[j], req)
            /\ Len(done.items) + Cardinality(LeftOut)
                   = CountInSnapshot(LAMBDA i : Qualified(i, req))
            /\ Len(done.items)
                   = Min(Len(done.items) + Cardinality(LeftOut),
                         Min(req.top_n, ResultCap))
            /\ \A k \in LeftOut :
                   \A j \in 1..Len(done.items) :
                       ~RatLt(FreshKey(done.items[j], req.mode),
                              FreshKey(cache.snap[k], req.mode))

\* C18: a scan left a qualified item out and returned an item with a
\* strictly greater key that the feed lists after it
LateItemReturned ==
    /\ ScanDone
    /\ done.arg.req.top_n > 0
    /\ \E k \in LeftOut :
           \E q \in (k + 1)..Len(cache.snap) :
               /\ \E j \in 1..Len(done.items) :
                      done.items[j].id = cache.snap[q].id
               /\ RatLt(FreshKey(cache.snap[k], done.arg.req.mode),
                        FreshKey(cache.snap[q], done.arg.req.mode))

\* C19: result counts: candidateCount is the number of snapshot items that
\* passed the pre-filter, qualifiedCount the number of those kept by the
\* gap filter, counted before truncation; an item the gap filter dropped is
\* not returned; and len(items) <= qualifiedCount <= candidateCount <= size
\* of the snapshot.
ResultCounts ==
    ScanDone =>
        LET req == done.arg.req
        IN  /\ done.cand = CountInSnapshot(LAMBDA i : PassedPreFilter(i, req))
            /\ done.qual = CountInSnapshot(LAMBDA i : Qualified(i, req))
            /\ \A j \in 1..Len(done.items) : Qualified(done.items[j], req)
            /\ Len(done.items) <= done.qual
            /\ done.qual <= done.cand
            /\ done.cand <= Len(cache.snap)

\* C19: a scan with fewer items than qualified, fewer qualified than
\* candidates and fewer candidates than the snapshot holds, one candidate
\* dropped by the gap filter
CountsAllDiffer ==
    /\ ScanDone
    /\ 0 < Len(done.items)
    /\ Len(done.items) < done.qual
    /\ done.qual < done.cand
    /\ done.cand < Len(cache.snap)
    /\ \E k \in 1..Len(cache.snap) :
           /\ PassedPreFilter(cache.snap[k], done.arg.req)
           /\ ~Qualified(cache.snap[k], done.arg.req)

\* C20: the cache never goes back in time: the timestamp stored in the
\* cache never decreases, so that the snapshot of a request that started
\* earlier never replaces the snapshot of a request that started later.
CacheNeverGoesBack ==
    [][(cache # None /\ cache' # None) => cache'.ts >= cache.ts]_vars

\* C21: the periodic scan keeps running: once on_ready has started
\* hourly_loop and while the client is not closed, the task of hourly_loop
\* has not ended, whatever its scheduled scans met, so that the next
\* scheduled scan is still to come.
LoopKeepsRunning ==
    client = "open" => tasks[LoopTask].pc # "dead"

====
